---- MODULE Spec2Model ----
(***************************************************************************)
(* Model of the Payment and Subscription aggregates of opensase-payments   *)
(* (src/src/domain/aggregates/payment.rs, subscription.rs).                *)
(*                                                                         *)
(* One Payment and one Subscription instance are modelled.  The two share  *)
(* no state; Spec drives the Payment, SpecSub the Subscription, and         *)
(* SpecAggregates a caller that works on either one of them.               *)
(*                                                                         *)
(*  rust_decimal::Decimal values are     *)
(* modelled as integers counting the smallest unit: Decimal addition and   *)
(* comparison are exact, and Decimal equality is numeric, so integers      *)
(* behave identically inside the bounds used here.                         *)
(*                                                                         *)
(* Dates (chrono::NaiveDate) are day numbers and timestamps are clock       *)
(* readings, both integers.                                                *)
(*                                                                         *)
(* Besides the fields of the structs, the model keeps observation          *)
(* variables that the code does not store: `result` (what the last call    *)
(* returned), `trace` (the calls made so far) and `emitted` (every event   *)
(* ever pushed by raise_event, whether drained or not).                    *)
(*                                                                         *)
(* SpecWriters models two callers that each clone one stored Payment,      *)
(* refund on their clone and write it back; SpecWallet models the wallet   *)
(* transfer handler of src/src/main.rs (create_transfer) against the       *)
(* wallets table.                                                          *)
(***************************************************************************)
EXTENDS Integers, Sequences, FiniteSets

\* Largest payment amount created; refund arguments range one beyond it.
MaxAmount == 2
\* Number of operations called on an aggregate after create.
MaxOps == 4
\* Latest day a Subscription is created on.
MaxDay == 1
\* Latest reading of the clock (Utc::now) taken by cancel.
MaxTime == 2
\* Largest opening balance of a wallet and largest transfer amount, in the
\* smallest unit (Decimal::new(amount, 2)).
MaxBalance == 2

\* Decimal values a Payment is created with (create rejects nothing).
Amounts == -1 .. MaxAmount
\* Decimal values passed to refund: negative, zero, valid and over the limit.
RefundArgs == -1 .. (MaxAmount + 1)
\* PaymentId values (PaymentId::new draws a fresh random token).
PaymentIds == {"pay_a", "pay_b"}
\* PaymentMethod values, told apart by their method_type.
PaymentMethods == {"Card", "Wallet"}
\* Option<PaymentMethod>::None
None == "None"
\* Subscription ids (a fresh uuid per Subscription::create).
SubscriptionIds == {"sub_a", "sub_b"}
\* Days (Utc::now().date_naive()) a Subscription is created on.
Days == 0 .. MaxDay
\* Readings of Utc::now() taken by cancel.
Timestamps == 1 .. MaxTime
\* Option<DateTime<Utc>>::None
NoTime == 0
\* Callers that work on the same stored Payment.
Writers == {"w1", "w2"}
\* Rows of the wallets table.
WalletIds == {"wal_a", "wal_b"}
\* A wallet id that matches no row of the wallets table.
MissingWallet == "wal_none"
\* Values of from_wallet_id and to_wallet_id in a TransferRequest.
TransferWallets == WalletIds \cup {MissingWallet}
\* Values of TransferRequest.amount; create_transfer does not call validate,
\* so the range(min = 1) attribute rejects nothing.
TransferAmounts == -1 .. MaxBalance
\* Concurrent create_transfer requests.
Requests == {"t1", "t2"}

VARIABLES
    id,                 \* Payment.id
    amount,             \* Payment.amount.amount
    status,             \* Payment.status
    payment_method,     \* Payment.payment_method
    refunded_amount,    \* Payment.refunded_amount
    events,             \* Payment.events (pending buffer)
    result,             \* return value of the last call
    drained,            \* value returned by the last take_events
    trace,              \* calls made since create
    emitted,            \* every event raised since create
    sub_id,                 \* Subscription.id
    sub_status,             \* Subscription.status
    current_period_start,   \* Subscription.current_period_start
    current_period_end,     \* Subscription.current_period_end
    billing_cycle,          \* Subscription.billing_cycle
    cancel_at_period_end,   \* Subscription.cancel_at_period_end
    cancelled_at,           \* Subscription.cancelled_at
    sub_events,             \* Subscription.events (pending buffer)
    sub_created_on,         \* the day Subscription::create ran
    sub_drained,            \* value returned by the last take_events
    sub_trace,              \* calls made on the Subscription since create
    sub_emitted,            \* every event the Subscription raised
    stored,             \* the Payment instance the writers share
    copy,               \* each writer's clone of the stored Payment
    w_pc,               \* each writer's position: idle, loaded, refunded, done
    w_amount,           \* the amount each writer passed to refund
    w_result,           \* what refund returned to each writer
    accepted,           \* sum of the amounts of the refunds that returned Ok
    serial,             \* no writer cloned while another one held a clone
    balance,            \* wallets.balance, by wallet id
    opening,            \* the balances before the first transfer
    t_pc,               \* each request's position in create_transfer
    t_req               \* each request's TransferRequest

paymentVars == <<id, amount, status, payment_method, refunded_amount, events,
                 result, drained, trace, emitted>>

subVars == <<sub_id, sub_status, current_period_start, current_period_end,
             billing_cycle, cancel_at_period_end, cancelled_at, sub_events,
             sub_created_on, sub_drained, sub_trace, sub_emitted>>

writerVars == <<stored, copy, w_pc, w_amount, w_result, accepted, serial>>

walletVars == <<balance, opening, t_pc, t_req>>

vars == <<paymentVars, subVars, writerVars, walletVars>>

\* What a call on the Payment leaves alone, and what a call on the
\* Subscription leaves alone.
besidesPayment == <<subVars, writerVars, walletVars>>
besidesSubscription == <<paymentVars, writerVars, walletVars>>

PaymentStatus ==
    {"Pending", "Processing", "Succeeded", "Failed", "Cancelled",
     "Refunded", "PartiallyRefunded"}

PaymentError == {"InvalidStatus", "NotRefundable", "RefundExceedsPayment"}

\* PaymentEvent variants, as raised by the aggregate.
CreatedEvent(pid, amt) == [type |-> "Created", payment_id |-> pid, amount |-> amt]
SucceededEvent(pid) == [type |-> "Succeeded", payment_id |-> pid]
RefundedEvent(pid, amt) == [type |-> "Refunded", payment_id |-> pid, amount |-> amt]

\* One entry of the call trace: the call, its arguments and what it returned.
Call(name, amt, method, res) ==
    [name |-> name, amount |-> amt, method |-> method, result |-> res]

\* fn raise_event: push onto the pending buffer (and onto the history).
raise_event(e) ==
    /\ events' = Append(events, e)
    /\ emitted' = Append(emitted, e)

\* Variant of PaymentCreate: the Created event is not raised.
PaymentCreateSilent(pid, amt) ==
    /\ id = pid
    /\ amount = amt
    /\ status = "Pending"
    /\ payment_method = None
    /\ refunded_amount = 0
    /\ events = <<>>
    /\ emitted = <<>>
    /\ result = "none"
    /\ drained = <<>>
    /\ trace = <<>>

\* Payment::create, with the id drawn by PaymentId::new
PaymentCreate(pid, amt) ==
    /\ id = pid
    /\ amount = amt
    /\ status = "Pending"
    /\ payment_method = None
    /\ refunded_amount = 0
    /\ events = <<CreatedEvent(pid, amt)>>
    /\ emitted = <<CreatedEvent(pid, amt)>>
    /\ result = "none"
    /\ drained = <<>>
    /\ trace = <<>>

\* SubscriptionEvent variants, as raised by the aggregate.
SubCreatedEvent(sid) == [type |-> "Created", subscription_id |-> sid]
SubRenewedEvent(sid) == [type |-> "Renewed", subscription_id |-> sid]
SubCancelledEvent(sid, at_period_end) ==
    [type |-> "Cancelled", subscription_id |-> sid,
     at_period_end |-> at_period_end]

\* BillingCycle
BillingCycle == {"Monthly", "Yearly", "Weekly"}

\* SubscriptionStatus
SubscriptionStatus == {"Active", "PastDue", "Cancelled", "Trialing", "Paused"}

\* Variant of CycleDays: a month of 31 days.
CycleDaysLongMonth(cycle) ==
    CASE cycle = "Monthly" -> 31
      [] cycle = "Yearly" -> 365
      [] cycle = "Weekly" -> 7

\* The match on the billing cycle in create and renew: days in one period.
CycleDays(cycle) ==
    CASE cycle = "Monthly" -> 30
      [] cycle = "Yearly" -> 365
      [] cycle = "Weekly" -> 7

\* Subscription::create, run on day `today` with the id drawn by Uuid::new_v4
SubscriptionCreate(sid, cycle, today) ==
    /\ sub_id = sid
    /\ sub_status = "Active"
    /\ current_period_start = today
    /\ current_period_end = today + CycleDays(cycle)
    /\ billing_cycle = cycle
    /\ cancel_at_period_end = FALSE
    /\ cancelled_at = NoTime
    /\ sub_events = <<SubCreatedEvent(sid)>>
    /\ sub_emitted = <<SubCreatedEvent(sid)>>
    /\ sub_created_on = today
    /\ sub_drained = <<>>
    /\ sub_trace = <<>>

\* A Payment instance as a value: the fields refund reads and writes.
PaymentValue(pid, amt, st, refunded, evs) ==
    [id |-> pid, amount |-> amt, status |-> st, refunded_amount |-> refunded,
     events |-> evs]

\* No Payment instance held.
NoPayment == PaymentValue("none", 0, "Absent", 0, <<>>)

\* No writer is at work.
IdleWriters ==
    /\ stored = NoPayment
    /\ copy = [w \in Writers |-> NoPayment]
    /\ w_pc = [w \in Writers |-> "idle"]
    /\ w_amount = [w \in Writers |-> 0]
    /\ w_result = [w \in Writers |-> "none"]
    /\ accepted = 0
    /\ serial = TRUE

\* A TransferRequest not yet received.
NoRequest == [from |-> MissingWallet, to |-> MissingWallet, amount |-> 0]

\* Wallets as create_wallet inserts them (balance 0), no transfer requested.
IdleWallets ==
    /\ balance = [w \in WalletIds |-> 0]
    /\ opening = balance
    /\ t_pc = [r \in Requests |-> "idle"]
    /\ t_req = [r \in Requests |-> NoRequest]

\* A Subscription that was created and is not used by the caller.
IdleSubscription == SubscriptionCreate("sub_a", "Monthly", 0)

\* A Payment that was created and is not used by the caller.
IdlePayment == PaymentCreate("pay_a", 0)

\* The caller creates a Payment and works on it.
Init ==
    /\ \E pid \in PaymentIds, amt \in Amounts : PaymentCreate(pid, amt)
    /\ IdleSubscription
    /\ IdleWriters
    /\ IdleWallets

\* Variant of ProcessAllowed: a payment already being processed is accepted
\* again.
ProcessAllowedWhileProcessing(s) == s = "Pending" \/ s = "Processing"

\* Variant of ProcessAllowed: a failed payment may be processed again.
ProcessAllowedAfterFailure(s) == s = "Pending" \/ s = "Failed"

\* Guard of process: the status it accepts.
ProcessAllowed(s) == s = "Pending"

\* Variant of Process: the method is stored before the status is checked.
ProcessStoresMethodFirst(method) ==
    /\ Len(trace) < MaxOps
    /\ payment_method' = method
    /\ IF ~ProcessAllowed(status)
       THEN /\ result' = "InvalidStatus"
            /\ UNCHANGED <<status, events, emitted>>
       ELSE /\ status' = "Processing"
            /\ result' = "Ok"
            /\ UNCHANGED <<events, emitted>>
    /\ trace' = Append(trace, Call("process", 0, method, result'))
    /\ UNCHANGED <<id, amount, refunded_amount, drained>>
    /\ UNCHANGED besidesPayment

\* Payment::process
Process(method) ==
    /\ Len(trace) < MaxOps
    /\ IF ~ProcessAllowed(status)
       THEN /\ result' = "InvalidStatus"
            /\ UNCHANGED <<status, payment_method, events, emitted>>
       ELSE /\ payment_method' = method
            /\ status' = "Processing"
            /\ result' = "Ok"
            /\ UNCHANGED <<events, emitted>>
    /\ trace' = Append(trace, Call("process", 0, method, result'))
    /\ UNCHANGED <<id, amount, refunded_amount, drained>>
    /\ UNCHANGED besidesPayment

\* Variant of SucceedAllowed: a settled payment may succeed again.
SucceedAllowedWhenSettled(s) == s = "Processing" \/ s = "Succeeded"

\* Variant of SucceedAllowed: a payment that was never processed may succeed.
SucceedAllowedFromPending(s) == s = "Processing" \/ s = "Pending"

\* Guard of succeed: the status it accepts.
SucceedAllowed(s) == s = "Processing"

\* Payment::succeed
Succeed ==
    /\ Len(trace) < MaxOps
    /\ IF ~SucceedAllowed(status)
       THEN /\ result' = "InvalidStatus"
            /\ UNCHANGED <<status, events, emitted>>
       ELSE /\ status' = "Succeeded"
            /\ raise_event(SucceededEvent(id))
            /\ result' = "Ok"
    /\ trace' = Append(trace, Call("succeed", 0, None, result'))
    /\ UNCHANGED <<id, amount, payment_method, refunded_amount, drained>>
    /\ UNCHANGED besidesPayment

\* Variant of Fail: the failure is announced with a Failed event.
FailRaisesEvent ==
    /\ Len(trace) < MaxOps
    /\ status' = "Failed"
    /\ raise_event([type |-> "Failed", payment_id |-> id])
    /\ result' = "unit"
    /\ trace' = Append(trace, Call("fail", 0, None, result'))
    /\ UNCHANGED <<id, amount, payment_method, refunded_amount, drained>>
    /\ UNCHANGED besidesPayment

\* Variant of Fail: a settled payment is not failed.
FailUnlessSettled ==
    /\ Len(trace) < MaxOps
    /\ status' = IF status \in {"Pending", "Processing", "Failed"}
                 THEN "Failed" ELSE status
    /\ result' = "unit"
    /\ trace' = Append(trace, Call("fail", 0, None, result'))
    /\ UNCHANGED <<id, amount, payment_method, refunded_amount, events,
                   emitted, drained>>
    /\ UNCHANGED besidesPayment

\* Payment::fail (the reason argument is dropped by the code)
Fail ==
    /\ Len(trace) < MaxOps
    /\ status' = "Failed"
    /\ result' = "unit"
    /\ trace' = Append(trace, Call("fail", 0, None, result'))
    /\ UNCHANGED <<id, amount, payment_method, refunded_amount, events,
                   emitted, drained>>
    /\ UNCHANGED besidesPayment

\* Variant of Refundable: a failed payment is refundable too.
RefundableAfterFailure(s) ==
    s = "Succeeded" \/ s = "PartiallyRefunded" \/ s = "Failed"

\* Variant of Refundable: a payment still being processed is refundable too.
RefundableWhileProcessing(s) ==
    s = "Succeeded" \/ s = "PartiallyRefunded" \/ s = "Processing"

\* Guard of refund: the statuses it accepts.
Refundable(s) == s = "Succeeded" \/ s = "PartiallyRefunded"

\* Variant of ExceedsPayment: the limit is off by one unit.
ExceedsPaymentOffByOne(new_total, total) == new_total > total + 1

\* Second guard of refund: the new total is over the payment amount.
ExceedsPayment(new_total, total) == new_total > total

\* Variant of RefundStatus: every successful refund closes the payment.
RefundStatusAlwaysFull(new_total, total) == "Refunded"

\* Status chosen by a successful refund.
RefundStatus(new_total, total) ==
    IF new_total = total THEN "Refunded" ELSE "PartiallyRefunded"

\* Variant of Refund: the event carries the new total, not the amount.
RefundEmitsTotal(amt) ==
    /\ Len(trace) < MaxOps
    /\ IF ~Refundable(status)
       THEN /\ result' = "NotRefundable"
            /\ UNCHANGED <<status, refunded_amount, events, emitted>>
       ELSE LET new_total == refunded_amount + amt IN
            IF ExceedsPayment(new_total, amount)
            THEN /\ result' = "RefundExceedsPayment"
                 /\ UNCHANGED <<status, refunded_amount, events, emitted>>
            ELSE /\ refunded_amount' = new_total
                 /\ status' = RefundStatus(new_total, amount)
                 /\ raise_event(RefundedEvent(id, new_total))
                 /\ result' = "Ok"
    /\ trace' = Append(trace, Call("refund", amt, None, result'))
    /\ UNCHANGED <<id, amount, payment_method, drained>>
    /\ UNCHANGED besidesPayment

\* Variant of Refund: the amount is checked before the status.
RefundChecksAmountFirst(amt) ==
    /\ Len(trace) < MaxOps
    /\ LET new_total == refunded_amount + amt IN
       IF ExceedsPayment(new_total, amount)
       THEN /\ result' = "RefundExceedsPayment"
            /\ UNCHANGED <<status, refunded_amount, events, emitted>>
       ELSE IF ~Refundable(status)
            THEN /\ result' = "NotRefundable"
                 /\ UNCHANGED <<status, refunded_amount, events, emitted>>
            ELSE /\ refunded_amount' = new_total
                 /\ status' = RefundStatus(new_total, amount)
                 /\ raise_event(RefundedEvent(id, amt))
                 /\ result' = "Ok"
    /\ trace' = Append(trace, Call("refund", amt, None, result'))
    /\ UNCHANGED <<id, amount, payment_method, drained>>
    /\ UNCHANGED besidesPayment

\* Payment::refund
Refund(amt) ==
    /\ Len(trace) < MaxOps
    /\ IF ~Refundable(status)
       THEN /\ result' = "NotRefundable"
            /\ UNCHANGED <<status, refunded_amount, events, emitted>>
       ELSE LET new_total == refunded_amount + amt IN
            IF ExceedsPayment(new_total, amount)
            THEN /\ result' = "RefundExceedsPayment"
                 /\ UNCHANGED <<status, refunded_amount, events, emitted>>
            ELSE /\ refunded_amount' = new_total
                 /\ status' = RefundStatus(new_total, amount)
                 /\ raise_event(RefundedEvent(id, amt))
                 /\ result' = "Ok"
    /\ trace' = Append(trace, Call("refund", amt, None, result'))
    /\ UNCHANGED <<id, amount, payment_method, drained>>
    /\ UNCHANGED besidesPayment

\* Payment::take_events
TakeEvents ==
    /\ Len(trace) < MaxOps
    /\ drained' = events
    /\ events' = <<>>
    /\ result' = "events"
    /\ trace' = Append(trace, Call("take_events", 0, None, result'))
    /\ UNCHANGED <<id, amount, status, payment_method, refunded_amount,
                   emitted>>
    /\ UNCHANGED besidesPayment

Next ==
    \/ \E method \in PaymentMethods : Process(method)
    \/ Succeed
    \/ Fail
    \/ \E amt \in RefundArgs : Refund(amt)
    \/ TakeEvents

Spec == Init /\ [][Next]_vars

----------------------------------------------------------------------------
(* Subscription aggregate (src/src/domain/aggregates/subscription.rs) *)

\* One entry of the Subscription call trace: the call, its argument and the
\* clock reading it took (NoTime when it read no clock).
SubCall(name, at_period_end, now) ==
    [name |-> name, at_period_end |-> at_period_end, now |-> now]

\* fn raise_event of Subscription
sub_raise_event(e) ==
    /\ sub_events' = Append(sub_events, e)
    /\ sub_emitted' = Append(sub_emitted, e)

\* Variant of Renew: the new end is computed before the start is moved.
RenewComputesEndFirst ==
    /\ Len(sub_trace) < MaxOps
    /\ current_period_end' = current_period_start + CycleDays(billing_cycle)
    /\ current_period_start' = current_period_end
    /\ sub_raise_event(SubRenewedEvent(sub_id))
    /\ sub_trace' = Append(sub_trace, SubCall("renew", FALSE, NoTime))
    /\ UNCHANGED <<sub_id, sub_status, billing_cycle, cancel_at_period_end,
                   cancelled_at, sub_created_on, sub_drained>>
    /\ UNCHANGED besidesSubscription

\* Subscription::renew
Renew ==
    /\ Len(sub_trace) < MaxOps
    /\ current_period_start' = current_period_end
    /\ current_period_end' = current_period_start' + CycleDays(billing_cycle)
    /\ sub_raise_event(SubRenewedEvent(sub_id))
    /\ sub_trace' = Append(sub_trace, SubCall("renew", FALSE, NoTime))
    /\ UNCHANGED <<sub_id, sub_status, billing_cycle, cancel_at_period_end,
                   cancelled_at, sub_created_on, sub_drained>>
    /\ UNCHANGED besidesSubscription

\* Variant of Cancel: an already cancelled subscription raises no event.
CancelOnce(at_period_end, now) ==
    /\ Len(sub_trace) < MaxOps
    /\ IF at_period_end
       THEN /\ cancel_at_period_end' = TRUE
            /\ UNCHANGED <<sub_status, cancelled_at>>
       ELSE /\ sub_status' = "Cancelled"
            /\ cancelled_at' = now
            /\ UNCHANGED cancel_at_period_end
    /\ IF sub_status = "Cancelled"
       THEN UNCHANGED <<sub_events, sub_emitted>>
       ELSE sub_raise_event(SubCancelledEvent(sub_id, at_period_end))
    /\ sub_trace' = Append(sub_trace,
            SubCall("cancel", at_period_end,
                    IF at_period_end THEN NoTime ELSE now))
    /\ UNCHANGED <<sub_id, current_period_start, current_period_end,
                   billing_cycle, sub_created_on, sub_drained>>
    /\ UNCHANGED besidesSubscription

\* Subscription::cancel; `now` is what Utc::now() returns if it is read
Cancel(at_period_end, now) ==
    /\ Len(sub_trace) < MaxOps
    /\ IF at_period_end
       THEN /\ cancel_at_period_end' = TRUE
            /\ UNCHANGED <<sub_status, cancelled_at>>
       ELSE /\ sub_status' = "Cancelled"
            /\ cancelled_at' = now
            /\ UNCHANGED cancel_at_period_end
    /\ sub_raise_event(SubCancelledEvent(sub_id, at_period_end))
    /\ sub_trace' = Append(sub_trace,
            SubCall("cancel", at_period_end,
                    IF at_period_end THEN NoTime ELSE now))
    /\ UNCHANGED <<sub_id, current_period_start, current_period_end,
                   billing_cycle, sub_created_on, sub_drained>>
    /\ UNCHANGED besidesSubscription

\* Variant of Pause: only an active subscription is paused.
PauseIfActive ==
    /\ Len(sub_trace) < MaxOps
    /\ sub_status' = IF sub_status = "Active" THEN "Paused" ELSE sub_status
    /\ sub_trace' = Append(sub_trace, SubCall("pause", FALSE, NoTime))
    /\ UNCHANGED <<sub_id, current_period_start, current_period_end,
                   billing_cycle, cancel_at_period_end, cancelled_at,
                   sub_events, sub_emitted, sub_created_on, sub_drained>>
    /\ UNCHANGED besidesSubscription

\* Subscription::pause
Pause ==
    /\ Len(sub_trace) < MaxOps
    /\ sub_status' = "Paused"
    /\ sub_trace' = Append(sub_trace, SubCall("pause", FALSE, NoTime))
    /\ UNCHANGED <<sub_id, current_period_start, current_period_end,
                   billing_cycle, cancel_at_period_end, cancelled_at,
                   sub_events, sub_emitted, sub_created_on, sub_drained>>
    /\ UNCHANGED besidesSubscription

\* Variant of ResumeAllowed: a cancelled subscription is resumed too.
ResumeAllowedWhenCancelled(s) == s = "Paused" \/ s = "Cancelled"

\* Guard of resume: the status it acts on.
ResumeAllowed(s) == s = "Paused"

\* Subscription::resume
Resume ==
    /\ Len(sub_trace) < MaxOps
    /\ sub_status' = IF ResumeAllowed(sub_status) THEN "Active" ELSE sub_status
    /\ sub_trace' = Append(sub_trace, SubCall("resume", FALSE, NoTime))
    /\ UNCHANGED <<sub_id, current_period_start, current_period_end,
                   billing_cycle, cancel_at_period_end, cancelled_at,
                   sub_events, sub_emitted, sub_created_on, sub_drained>>
    /\ UNCHANGED besidesSubscription

\* Variant of SubTakeEvents: the buffer is copied, not taken.
SubTakeEventsKeeps ==
    /\ Len(sub_trace) < MaxOps
    /\ sub_drained' = sub_events
    /\ sub_trace' = Append(sub_trace, SubCall("take_events", FALSE, NoTime))
    /\ UNCHANGED <<sub_id, sub_status, current_period_start,
                   current_period_end, billing_cycle, cancel_at_period_end,
                   cancelled_at, sub_events, sub_emitted, sub_created_on>>
    /\ UNCHANGED besidesSubscription

\* Subscription::take_events
SubTakeEvents ==
    /\ Len(sub_trace) < MaxOps
    /\ sub_drained' = sub_events
    /\ sub_events' = <<>>
    /\ sub_trace' = Append(sub_trace, SubCall("take_events", FALSE, NoTime))
    /\ UNCHANGED <<sub_id, sub_status, current_period_start,
                   current_period_end, billing_cycle, cancel_at_period_end,
                   cancelled_at, sub_emitted, sub_created_on>>
    /\ UNCHANGED besidesSubscription

\* The caller creates a Subscription and works on it.
InitSub ==
    /\ \E sid \in SubscriptionIds, cycle \in BillingCycle, today \in Days :
            SubscriptionCreate(sid, cycle, today)
    /\ IdlePayment
    /\ IdleWriters
    /\ IdleWallets

NextSub ==
    \/ Renew
    \/ \E at_period_end \in BOOLEAN, now \in Timestamps :
            Cancel(at_period_end, now)
    \/ Pause
    \/ Resume
    \/ SubTakeEvents

SpecSub == InitSub /\ [][NextSub]_vars

\* A caller that creates both aggregates and works on one of them, leaving
\* the other as created.
InitAggregates == Init \/ InitSub

NextAggregates ==
    \/ IdleSubscription /\ Next
    \/ IdlePayment /\ NextSub

SpecAggregates == InitAggregates /\ [][NextAggregates]_vars

----------------------------------------------------------------------------
(* Two writers on one stored Payment *)

\* Variant of RefundOn: the new total is not compared with the amount.
RefundOnUnchecked(p, amt) ==
    IF ~Refundable(p.status)
    THEN [payment |-> p, result |-> "NotRefundable"]
    ELSE LET new_total == p.refunded_amount + amt IN
         [payment |-> [p EXCEPT !.refunded_amount = new_total,
                                !.status = RefundStatus(new_total, p.amount),
                                !.events = Append(p.events,
                                                  RefundedEvent(p.id, amt))],
          result |-> "Ok"]

\* Payment::refund on the instance p: the instance afterwards and the value
\* returned.
RefundOn(p, amt) ==
    IF ~Refundable(p.status)
    THEN [payment |-> p, result |-> "NotRefundable"]
    ELSE LET new_total == p.refunded_amount + amt IN
         IF ExceedsPayment(new_total, p.amount)
         THEN [payment |-> p, result |-> "RefundExceedsPayment"]
         ELSE [payment |-> [p EXCEPT !.refunded_amount = new_total,
                                     !.status = RefundStatus(new_total, p.amount),
                                     !.events = Append(p.events,
                                                       RefundedEvent(p.id, amt))],
               result |-> "Ok"]

\* A writer takes its own copy of the stored Payment (Payment: Clone).
WriterLoad(w) ==
    /\ w_pc[w] = "idle"
    /\ copy' = [copy EXCEPT ![w] = stored]
    /\ w_pc' = [w_pc EXCEPT ![w] = "loaded"]
    /\ serial' = (serial /\ \A o \in Writers \ {w} : w_pc[o] \in {"idle", "done"})
    /\ UNCHANGED <<stored, w_amount, w_result, accepted>>
    /\ UNCHANGED <<paymentVars, subVars, walletVars>>

\* A writer calls refund on its copy.
WriterRefund(w, amt) ==
    /\ w_pc[w] = "loaded"
    /\ LET r == RefundOn(copy[w], amt) IN
        /\ copy' = [copy EXCEPT ![w] = r.payment]
        /\ w_result' = [w_result EXCEPT ![w] = r.result]
        /\ accepted' = IF r.result = "Ok" THEN accepted + amt ELSE accepted
    /\ w_amount' = [w_amount EXCEPT ![w] = amt]
    /\ w_pc' = [w_pc EXCEPT ![w] = "refunded"]
    /\ UNCHANGED <<stored, serial>>
    /\ UNCHANGED <<paymentVars, subVars, walletVars>>

\* A writer whose refund returned Ok writes its copy over the stored Payment,
\* comparing no version.
WriterSave(w) ==
    /\ w_pc[w] = "refunded"
    /\ w_result[w] = "Ok"
    /\ stored' = copy[w]
    /\ copy' = [copy EXCEPT ![w] = NoPayment]
    /\ w_pc' = [w_pc EXCEPT ![w] = "done"]
    /\ UNCHANGED <<w_amount, w_result, accepted, serial>>
    /\ UNCHANGED <<paymentVars, subVars, walletVars>>

\* A writer whose refund returned an error drops its copy.
WriterDiscard(w) ==
    /\ w_pc[w] = "refunded"
    /\ w_result[w] # "Ok"
    /\ copy' = [copy EXCEPT ![w] = NoPayment]
    /\ w_pc' = [w_pc EXCEPT ![w] = "done"]
    /\ UNCHANGED <<stored, w_amount, w_result, accepted, serial>>
    /\ UNCHANGED <<paymentVars, subVars, walletVars>>

\* A Payment that was created, processed and settled, its events drained, is
\* stored; both writers are idle.
InitWriters ==
    /\ IdlePayment
    /\ IdleSubscription
    /\ IdleWallets
    /\ \E pid \in PaymentIds, amt \in Amounts :
            stored = PaymentValue(pid, amt, "Succeeded", 0, <<>>)
    /\ copy = [w \in Writers |-> NoPayment]
    /\ w_pc = [w \in Writers |-> "idle"]
    /\ w_amount = [w \in Writers |-> 0]
    /\ w_result = [w \in Writers |-> "none"]
    /\ accepted = 0
    /\ serial = TRUE

NextWriters ==
    \/ \E w \in Writers : WriterLoad(w)
    \/ \E w \in Writers, amt \in RefundArgs : WriterRefund(w, amt)
    \/ \E w \in Writers : WriterSave(w)
    \/ \E w \in Writers : WriterDiscard(w)

SpecWriters == InitWriters /\ [][NextWriters]_vars

----------------------------------------------------------------------------
(* Wallet transfers (create_transfer) *)

\* UPDATE wallets SET balance = balance - $1 WHERE id = $2 AND balance >= $1
DebitUpdate(b, from, amt) ==
    IF from \in WalletIds /\ b[from] >= amt
    THEN [b EXCEPT ![from] = @ - amt]
    ELSE b

\* UPDATE wallets SET balance = balance + $1 WHERE id = $2
CreditUpdate(b, to, amt) ==
    IF to \in WalletIds THEN [b EXCEPT ![to] = @ + amt] ELSE b

\* create_transfer up to and including the debit statement; the number of
\* rows the statement changed is not read.
DebitSource(r, from, to, amt) ==
    /\ t_pc[r] = "idle"
    /\ t_req' = [t_req EXCEPT ![r] = [from |-> from, to |-> to, amount |-> amt]]
    /\ balance' = DebitUpdate(balance, from, amt)
    /\ t_pc' = [t_pc EXCEPT ![r] = "debit_done"]
    /\ UNCHANGED opening
    /\ UNCHANGED <<paymentVars, subVars, writerVars>>

\* The debit statement returns an error: the handler answers 500.
DebitFails(r, from, to, amt) ==
    /\ t_pc[r] = "idle"
    /\ t_req' = [t_req EXCEPT ![r] = [from |-> from, to |-> to, amount |-> amt]]
    /\ t_pc' = [t_pc EXCEPT ![r] = "failed"]
    /\ UNCHANGED <<balance, opening>>
    /\ UNCHANGED <<paymentVars, subVars, writerVars>>

\* The credit statement, then the "completed" answer.
CreditDestination(r) ==
    /\ t_pc[r] = "debit_done"
    /\ balance' = CreditUpdate(balance, t_req[r].to, t_req[r].amount)
    /\ t_pc' = [t_pc EXCEPT ![r] = "completed"]
    /\ UNCHANGED <<opening, t_req>>
    /\ UNCHANGED <<paymentVars, subVars, writerVars>>

\* The credit statement returns an error: the handler answers 500 and the
\* debit stays.
CreditFails(r) ==
    /\ t_pc[r] = "debit_done"
    /\ t_pc' = [t_pc EXCEPT ![r] = "failed"]
    /\ UNCHANGED <<balance, opening, t_req>>
    /\ UNCHANGED <<paymentVars, subVars, writerVars>>

\* Wallets that were created and topped up; no transfer requested yet.
InitWallet ==
    /\ IdlePayment
    /\ IdleSubscription
    /\ IdleWriters
    /\ balance \in [WalletIds -> 0 .. MaxBalance]
    /\ opening = balance
    /\ t_pc = [r \in Requests |-> "idle"]
    /\ t_req = [r \in Requests |-> NoRequest]

NextWallet ==
    \/ \E r \in Requests, from \in TransferWallets, to \in TransferWallets,
          amt \in TransferAmounts : DebitSource(r, from, to, amt)
    \/ \E r \in Requests, from \in TransferWallets, to \in TransferWallets,
          amt \in TransferAmounts : DebitFails(r, from, to, amt)
    \/ \E r \in Requests : CreditDestination(r)
    \/ \E r \in Requests : CreditFails(r)

SpecWallet == InitWallet /\ [][NextWallet]_vars

----------------------------------------------------------------------------
(* Observations shared by the properties below. *)

\* The last call made, if any.
LastCall == trace[Len(trace)]

\* Number of events of a given type in a sequence of events.
CountType(seq, t) == Cardinality({i \in 1..Len(seq) : seq[i].type = t})

\* The step is a call of the named operation.
Called(name) ==
    /\ Len(trace') = Len(trace) + 1
    /\ trace'[Len(trace')].name = name

\* The argument record of the call made by the step.
NewCall == trace'[Len(trace')]

\* Positions in the trace of the calls of an operation that returned Ok.
OkCalls(name) ==
    {i \in 1..Len(trace) : trace[i].name = name /\ trace[i].result = "Ok"}

TypeOK ==
    /\ id \in PaymentIds
    /\ amount \in Amounts
    /\ status \in PaymentStatus
    /\ payment_method \in PaymentMethods \cup {None}
    /\ refunded_amount \in Int
    /\ result \in PaymentError \cup {"none", "Ok", "unit", "events"}
    /\ Len(trace) <= MaxOps

----------------------------------------------------------------------------
(* Payment: refund limits *)

\* C1: for a Payment created with a non-negative amount,
\* 0 <= refunded_amount <= amount.amount in every reachable state.
C1_RefundedWithinBounds ==
    amount >= 0 => (0 <= refunded_amount /\ refunded_amount <= amount)

\* C2: a refund on a Succeeded or PartiallyRefunded payment whose new total
\* would exceed the payment amount returns RefundExceedsPayment and leaves
\* status, refunded_amount and the pending events as they were.
C2_ExcessRefundRejected ==
    [][(/\ Called("refund")
        /\ status \in {"Succeeded", "PartiallyRefunded"}
        /\ refunded_amount + NewCall.amount > amount)
       => (/\ result' = "RefundExceedsPayment"
           /\ NewCall.result = "RefundExceedsPayment"
           /\ UNCHANGED <<status, refunded_amount, events>>)]_vars

\* C2 witness: a partially refunded payment has just rejected a refund that
\* would have taken the total over the amount.
C2_Witness ==
    /\ Len(trace) > 0
    /\ LastCall.name = "refund"
    /\ result = "RefundExceedsPayment"
    /\ status = "PartiallyRefunded"
    /\ refunded_amount > 0
    /\ refunded_amount + LastCall.amount > amount

----------------------------------------------------------------------------
(* Payment: settlement *)

\* C3: over the life of one Payment, succeed returns Ok at most once and at
\* most one Succeeded event is ever emitted, drained or pending.
C3_SucceedsAtMostOnce ==
    /\ Cardinality(OkCalls("succeed")) <= 1
    /\ CountType(emitted, "Succeeded") <= 1

\* C3 witness: succeed returned Ok and was then called again.
C3_Witness ==
    \E i, j \in 1..Len(trace) :
        /\ i < j
        /\ trace[i].name = "succeed" /\ trace[i].result = "Ok"
        /\ trace[j].name = "succeed"
        /\ CountType(emitted, "Succeeded") = 1

\* The edges of the Payment state machine.
MachineEdges ==
    {<<"Pending", "Processing">>,
     <<"Processing", "Succeeded">>,
     <<"Processing", "Failed">>,
     <<"Succeeded", "Refunded">>,
     <<"Succeeded", "PartiallyRefunded">>,
     <<"PartiallyRefunded", "Refunded">>,
     <<"PartiallyRefunded", "PartiallyRefunded">>}

\* C4 (as stated): every change of status, by any operation, follows an edge
\* of the state machine.
C4_OnlyMachineEdges ==
    [][status' # status => (<<status, status'>> \in MachineEdges)]_vars

\* C4 (amended): every change of status made by process, succeed or refund
\* follows an edge of the state machine; every other change of status is made
\* by fail and ends in Failed.
C4_MachineEdgesOrFail ==
    [][status' # status =>
        ((<<status, status'>> \in MachineEdges)
            \/ (Called("fail") /\ status' = "Failed"))]_vars

\* C4 witness: fail has just been called on a payment that had been refunded
\* in part, a change of status that is not an edge of the state machine.
C4_Witness ==
    /\ Len(trace) > 0
    /\ LastCall.name = "fail"
    /\ status = "Failed"
    /\ CountType(emitted, "Refunded") > 0
    /\ refunded_amount < amount

\* C5 (as stated): once the status is Failed or Refunded no operation changes
\* it.
C5_FailedAndRefundedTerminal ==
    [][(status \in {"Failed", "Refunded"}) => (status' = status)]_vars

\* C5 (amended): once the status is Failed no operation changes it; once it
\* is Refunded only fail changes it, to Failed.
C5_FailedTerminalRefundedUntilFail ==
    [][(status = "Failed" => status' = "Failed")
       /\ (status = "Refunded" =>
             (status' = "Refunded" \/ (Called("fail") /\ status' = "Failed")))
      ]_vars

\* C5 witness: fail has just been called on a fully refunded payment, whose
\* status was Refunded and is now Failed.
C5_Witness ==
    /\ Len(trace) > 1
    /\ trace[Len(trace) - 1].name = "refund"
    /\ trace[Len(trace) - 1].result = "Ok"
    /\ refunded_amount = amount
    /\ LastCall.name = "fail"
    /\ status = "Failed"

\* Calls that cannot have changed the status: take_events and calls that
\* returned an error.
Harmless(c) ==
    \/ c.name = "take_events"
    \/ c.result \in {"InvalidStatus", "NotRefundable", "RefundExceedsPayment"}

\* One call of succeed, as observed from outside.
C6_SucceedStep ==
    Called("succeed") =>
        IF status = "Processing"
        THEN /\ result' = "Ok"
             /\ NewCall.result = "Ok"
             /\ status' = "Succeeded"
             /\ events' = Append(events, SucceededEvent(id))
        ELSE /\ result' = "InvalidStatus"
             /\ NewCall.result = "InvalidStatus"
             /\ UNCHANGED <<status, refunded_amount, events>>

\* C6: succeed returns Ok only from Processing, that is only when the last
\* status-changing call was a successful process; from any other status it
\* returns InvalidStatus and leaves status, refunded_amount and the pending
\* events unchanged.  create, process, succeed ends in Succeeded with one
\* Succeeded event after the Created event.
C6_SucceedOnlyFromProcessing ==
    /\ [][C6_SucceedStep]_vars
    /\ [](\A i \in OkCalls("succeed") :
            \E j \in OkCalls("process") :
                /\ j < i
                /\ \A k \in (j + 1)..(i - 1) : Harmless(trace[k]))
    /\ []((/\ Len(trace) = 2
           /\ trace[1].name = "process"
           /\ trace[2].name = "succeed")
          => (/\ status = "Succeeded"
              /\ emitted = <<CreatedEvent(id, amount), SucceededEvent(id)>>
              /\ events = emitted))

\* C6 witness: create, process, succeed has run, and succeed was then called
\* again and refused.
C6_Witness ==
    /\ Len(trace) = 3
    /\ trace[1].name = "process"
    /\ trace[2].name = "succeed" /\ trace[2].result = "Ok"
    /\ trace[3].name = "succeed" /\ trace[3].result = "InvalidStatus"
    /\ status = "Succeeded"
    /\ events = <<CreatedEvent(id, amount), SucceededEvent(id)>>

----------------------------------------------------------------------------
(* Payment: refund *)

\* One call of refund on a payment that is not refundable.
C7_NotRefundableStep ==
    (Called("refund") /\ status \notin {"Succeeded", "PartiallyRefunded"})
        => (/\ result' = "NotRefundable"
            /\ NewCall.result = "NotRefundable"
            /\ UNCHANGED <<status, refunded_amount, events>>)

\* C7: refund on a payment that is neither Succeeded nor PartiallyRefunded
\* returns NotRefundable for every amount, also for one that is over the
\* limit, and leaves status, refunded_amount and the pending events unchanged.
C7_NotRefundable == [][C7_NotRefundableStep]_vars

\* C7 witness: a fully refunded payment has refused, as NotRefundable, a
\* refund whose amount is also over the limit.
C7_Witness ==
    /\ Len(trace) > 0
    /\ LastCall.name = "refund"
    /\ LastCall.result = "NotRefundable"
    /\ status = "Refunded"
    /\ refunded_amount + LastCall.amount > amount

\* One call of refund, as observed from outside.
C8_RefundStep ==
    Called("refund") =>
        LET a == NewCall.amount
            r == refunded_amount
        IN /\ (result' = "Ok") =>
                (/\ refunded_amount' = r + a
                 /\ r + a <= amount
                 /\ (r + a = amount) => (status' = "Refunded")
                 /\ (r + a < amount) => (status' = "PartiallyRefunded")
                 /\ events' = Append(events, RefundedEvent(id, a))
                 /\ emitted' = Append(emitted, RefundedEvent(id, a)))
           /\ (status \in {"Succeeded", "PartiallyRefunded"} /\ r + a <= amount)
                => (result' = "Ok")

\* C8: a successful refund(a) adds a to refunded_amount, sets the status to
\* Refunded when the new total equals the payment amount and to
\* PartiallyRefunded when it is below, and appends one Refunded event carrying
\* a; a refund from Succeeded or PartiallyRefunded that keeps the total within
\* the amount is accepted.
C8_RefundEffect == [][C8_RefundStep]_vars

\* C8 witness: a partial refund followed by the refund of the rest has closed
\* the payment.
C8_Witness ==
    /\ Len(trace) > 1
    /\ trace[Len(trace) - 1].name = "refund"
    /\ trace[Len(trace) - 1].result = "Ok"
    /\ trace[Len(trace) - 1].amount > 0
    /\ LastCall.name = "refund"
    /\ LastCall.result = "Ok"
    /\ LastCall.amount > 0
    /\ status = "Refunded"
    /\ refunded_amount = amount
    /\ CountType(emitted, "Refunded") = 2

----------------------------------------------------------------------------
(* Payment: process *)

\* One call of process, as observed from outside.
C9_ProcessStep ==
    Called("process") =>
        IF status = "Pending"
        THEN /\ result' = "Ok"
             /\ NewCall.result = "Ok"
             /\ payment_method' = NewCall.method
             /\ status' = "Processing"
             /\ UNCHANGED <<events, emitted>>
        ELSE /\ result' = "InvalidStatus"
             /\ NewCall.result = "InvalidStatus"
             /\ UNCHANGED <<status, payment_method, events, emitted>>

\* C9: process returns Ok only from Pending, where it stores the method, sets
\* the status to Processing and appends no event; from any other status it
\* returns InvalidStatus and leaves status, payment_method and the pending
\* events unchanged.
C9_ProcessOnlyFromPending == [][C9_ProcessStep]_vars

\* C9 witness: a payment being processed has refused a second process call
\* and kept its status.
C9_Witness ==
    /\ Len(trace) > 1
    /\ LastCall.name = "process"
    /\ LastCall.result = "InvalidStatus"
    /\ status = "Processing"
    /\ Len(events) = 1

\* What one step may do to payment_method.
C10_MethodStep ==
    /\ (payment_method # None) => (payment_method' = payment_method)
    /\ (payment_method' # payment_method) =>
            (Called("process") /\ NewCall.result = "Ok")

\* C10: payment_method is None until the first successful process call, never
\* changes once set, and process succeeds at most once.
C10_MethodSetOnce ==
    /\ []((OkCalls("process") = {}) => (payment_method = None))
    /\ [](Cardinality(OkCalls("process")) <= 1)
    /\ [](\A i \in OkCalls("process") : payment_method = trace[i].method)
    /\ [][C10_MethodStep]_vars

\* C10 witness: after a successful process, process was called again with a
\* different method and the stored method is still the first one.
C10_Witness ==
    \E i, j \in 1..Len(trace) :
        /\ i < j
        /\ trace[i].name = "process" /\ trace[i].result = "Ok"
        /\ trace[j].name = "process" /\ trace[j].method # trace[i].method
        /\ payment_method = trace[i].method

----------------------------------------------------------------------------
(* Observations of the Subscription *)

\* The last call made on the Subscription, if any.
SubLastCall == sub_trace[Len(sub_trace)]

\* The step is a call of the named Subscription operation.
SubCalled(name) ==
    /\ Len(sub_trace') = Len(sub_trace) + 1
    /\ sub_trace'[Len(sub_trace')].name = name

\* The argument record of the Subscription call made by the step.
SubNewCall == sub_trace'[Len(sub_trace')]

\* Positions in the Subscription trace of the calls of an operation.
SubCalls(name) == {i \in 1..Len(sub_trace) : sub_trace[i].name = name}

\* a is the beginning of b.
IsPrefix(a, b) == Len(a) <= Len(b) /\ a = SubSeq(b, 1, Len(a))

\* a is the end of b.
IsSuffix(a, b) ==
    Len(a) <= Len(b) /\ a = SubSeq(b, Len(b) - Len(a) + 1, Len(b))

----------------------------------------------------------------------------
(* Both aggregates: take_events *)

\* One step of the Payment, seen from its event buffer.
C11_PaymentStep ==
    /\ Called("take_events") =>
            (/\ drained' = events
             /\ events' = <<>>
             /\ emitted' = emitted
             /\ UNCHANGED <<id, amount, status, payment_method,
                            refunded_amount>>
             /\ (Len(trace) > 0 /\ LastCall.name = "take_events")
                    => (drained' = <<>>))
    /\ (trace' # trace /\ ~Called("take_events")) =>
            (/\ IsPrefix(events, events')
             /\ IsPrefix(emitted, emitted')
             /\ Len(events') - Len(events) = Len(emitted') - Len(emitted))

\* One step of the Subscription, seen from its event buffer.
C11_SubscriptionStep ==
    /\ SubCalled("take_events") =>
            (/\ sub_drained' = sub_events
             /\ sub_events' = <<>>
             /\ sub_emitted' = sub_emitted
             /\ UNCHANGED <<sub_id, sub_status, current_period_start,
                            current_period_end, billing_cycle,
                            cancel_at_period_end, cancelled_at>>
             /\ (Len(sub_trace) > 0 /\ SubLastCall.name = "take_events")
                    => (sub_drained' = <<>>))
    /\ (sub_trace' # sub_trace /\ ~SubCalled("take_events")) =>
            (/\ IsPrefix(sub_events, sub_events')
             /\ IsPrefix(sub_emitted, sub_emitted')
             /\ Len(sub_events') - Len(sub_events)
                    = Len(sub_emitted') - Len(sub_emitted))

\* C11: for both aggregates take_events returns exactly the events appended
\* since the previous take_events (or since creation), in emission order, and
\* empties the buffer; a second take_events in a row returns the empty
\* sequence; take_events changes no other field.
C11_TakeEventsDrains ==
    /\ [](IsSuffix(events, emitted) /\ IsSuffix(sub_events, sub_emitted))
    /\ [][C11_PaymentStep /\ C11_SubscriptionStep]_vars

\* C11 witness: a Payment was processed and settled, its two events were
\* drained, and a second take_events in a row returned nothing.
C11_Witness ==
    /\ Len(trace) = 4
    /\ trace[3].name = "take_events"
    /\ trace[4].name = "take_events"
    /\ Len(emitted) = 2
    /\ emitted[2].type = "Succeeded"
    /\ events = <<>>
    /\ drained = <<>>

----------------------------------------------------------------------------
(* Payment: create and fail *)

\* C12: Payment::create yields status Pending, refunded_amount 0,
\* payment_method None and a pending buffer holding exactly one event, Created,
\* with the id of the new Payment and the given amount.
C12_CreateState ==
    /\ Len(emitted) >= 1
    /\ emitted[1] = [type |-> "Created", payment_id |-> id, amount |-> amount]
    /\ (trace = <<>>) =>
            (/\ status = "Pending"
             /\ refunded_amount = 0
             /\ payment_method = None
             /\ events = <<[type |-> "Created", payment_id |-> id,
                            amount |-> amount]>>
             /\ emitted = events)

\* C12 witness: a Payment of the largest amount has just been created.
C12_Witness ==
    /\ trace = <<>>
    /\ amount = MaxAmount
    /\ id = "pay_b"
    /\ Len(events) = 1
    /\ events[1].amount = MaxAmount

\* One call of fail, as observed from outside.
C13_FailStep ==
    Called("fail") =>
        (/\ status' = "Failed"
         /\ UNCHANGED <<id, amount, payment_method, refunded_amount, events,
                        emitted>>
         /\ (Len(trace) > 0 /\ LastCall.name = "fail") =>
                UNCHANGED <<id, amount, status, payment_method,
                            refunded_amount, events, emitted>>)

\* C13: fail sets the status to Failed from every prior status, appends no
\* event, changes neither refunded_amount nor payment_method, and a second
\* fail leaves the state the first one produced.
C13_FailUnconditional == [][C13_FailStep]_vars

\* C13 witness: a settled payment has been failed twice in a row.
C13_Witness ==
    /\ Len(trace) = 4
    /\ trace[2].name = "succeed" /\ trace[2].result = "Ok"
    /\ trace[3].name = "fail"
    /\ trace[4].name = "fail"
    /\ status = "Failed"
    /\ Len(emitted) = 2

----------------------------------------------------------------------------
(* Subscription: cancellation and renewal *)

\* C14: for a Subscription whose status is Cancelled, no operation advances
\* current_period_start or current_period_end or emits a Renewed event.
C14_CancelledNeverRenewed ==
    [][(sub_status = "Cancelled") =>
        (/\ current_period_start' = current_period_start
         /\ current_period_end' = current_period_end
         /\ CountType(sub_emitted', "Renewed")
                = CountType(sub_emitted, "Renewed"))]_vars

\* C15 (as stated): once the status is Cancelled no operation changes it.
C15_CancelledTerminal ==
    [][(sub_status = "Cancelled") => (sub_status' = "Cancelled")]_vars

\* C15 (amended): once the status is Cancelled, renew, cancel, resume and
\* take_events do not change it; only pause changes it, to Paused.
C15_CancelledUntilPause ==
    [][(sub_status = "Cancelled") =>
        (\/ sub_status' = "Cancelled"
         \/ (SubCalled("pause") /\ sub_status' = "Paused"))]_vars

\* C15 witness: resume has just been called on a cancelled subscription, which
\* is still Cancelled.
C15_Witness ==
    /\ Len(sub_trace) > 1
    /\ sub_trace[Len(sub_trace) - 1].name = "cancel"
    /\ ~sub_trace[Len(sub_trace) - 1].at_period_end
    /\ SubLastCall.name = "resume"
    /\ sub_status = "Cancelled"

----------------------------------------------------------------------------
(* Subscription: billing periods *)

\* Length in days of one period of the Subscription, as the specification
\* gives it.
PeriodDays ==
    IF billing_cycle = "Monthly" THEN 30
    ELSE IF billing_cycle = "Yearly" THEN 365
    ELSE 7

\* C16: in every reachable state current_period_end is current_period_start
\* plus 30 days for Monthly, 365 for Yearly and 7 for Weekly, hence strictly
\* after current_period_start.
C16_PeriodLength ==
    /\ billing_cycle \in {"Monthly", "Yearly", "Weekly"}
    /\ current_period_end = current_period_start + PeriodDays
    /\ current_period_end > current_period_start

\* C16 witness: a Yearly subscription created on the last day was renewed,
\* then cancelled at once and paused.
C16_Witness ==
    /\ billing_cycle = "Yearly"
    /\ sub_created_on = MaxDay
    /\ Len(sub_trace) = 3
    /\ sub_trace[1].name = "renew"
    /\ sub_trace[2].name = "cancel"
    /\ sub_trace[3].name = "pause"
    /\ current_period_start = MaxDay + 365

\* One call of renew, as observed from outside.
C17_RenewStep ==
    SubCalled("renew") =>
        (/\ current_period_start' = current_period_end
         /\ current_period_end' = current_period_end + PeriodDays
         /\ sub_events' = Append(sub_events,
                [type |-> "Renewed", subscription_id |-> sub_id])
         /\ sub_emitted' = Append(sub_emitted,
                [type |-> "Renewed", subscription_id |-> sub_id])
         /\ UNCHANGED <<sub_status, cancel_at_period_end, cancelled_at,
                        billing_cycle>>)

\* C17: renew sets current_period_start to the previous current_period_end,
\* so after n renewals of a subscription created on day D with offset d the
\* period is D + n*d .. D + (n+1)*d; it appends exactly one Renewed event and
\* leaves status, cancel_at_period_end, cancelled_at and billing_cycle alone.
C17_RenewContiguous ==
    /\ [][C17_RenewStep]_vars
    /\ [](LET n == Cardinality(SubCalls("renew")) IN
            /\ current_period_start = sub_created_on + n * PeriodDays
            /\ current_period_end = sub_created_on + (n + 1) * PeriodDays
            /\ CountType(sub_emitted, "Renewed") = n)

\* C17 witness: a Monthly subscription has been renewed twice in a row.
C17_Witness ==
    /\ billing_cycle = "Monthly"
    /\ Len(sub_trace) = 2
    /\ sub_trace[1].name = "renew"
    /\ sub_trace[2].name = "renew"
    /\ current_period_start = sub_created_on + 60
    /\ current_period_end = sub_created_on + 90
    /\ Len(sub_events) = 3

----------------------------------------------------------------------------
(* Subscription: cancel, pause, resume *)

\* One call of cancel, as observed from outside.
C18_CancelStep ==
    SubCalled("cancel") =>
        (/\ IF SubNewCall.at_period_end
            THEN /\ cancel_at_period_end' = TRUE
                 /\ UNCHANGED <<sub_status, cancelled_at>>
            ELSE /\ sub_status' = "Cancelled"
                 /\ cancelled_at' = SubNewCall.now
                 /\ cancelled_at' # NoTime
                 /\ UNCHANGED cancel_at_period_end
         /\ sub_events' = Append(sub_events,
                [type |-> "Cancelled", subscription_id |-> sub_id,
                 at_period_end |-> SubNewCall.at_period_end])
         /\ sub_emitted' = Append(sub_emitted,
                [type |-> "Cancelled", subscription_id |-> sub_id,
                 at_period_end |-> SubNewCall.at_period_end]))

\* C18: cancel(true) sets cancel_at_period_end and leaves status and
\* cancelled_at unchanged; cancel(false) sets status to Cancelled and records
\* cancelled_at, leaving cancel_at_period_end unchanged; both append one
\* Cancelled event carrying the flag, from every prior status including
\* Cancelled.  A freshly created Subscription is Active with
\* cancel_at_period_end false.
C18_CancelEffect ==
    /\ [][C18_CancelStep]_vars
    /\ []((sub_trace = <<>>) =>
            (sub_status = "Active" /\ cancel_at_period_end = FALSE
             /\ cancelled_at = NoTime))

\* C18 witness: an already cancelled subscription has been cancelled again, at
\* a later time, and raised a second Cancelled event.
C18_Witness ==
    /\ Len(sub_trace) = 2
    /\ sub_trace[1].name = "cancel" /\ ~sub_trace[1].at_period_end
    /\ sub_trace[2].name = "cancel" /\ ~sub_trace[2].at_period_end
    /\ sub_trace[2].now > sub_trace[1].now
    /\ cancelled_at = sub_trace[2].now
    /\ sub_status = "Cancelled"
    /\ CountType(sub_events, "Cancelled") = 2

\* C19: in no reachable state are cancel_at_period_end = true and immediate
\* cancellation (status Cancelled with cancelled_at set) true at once.
C19_CancelSignalsExclusive ==
    ~(/\ cancel_at_period_end = TRUE
      /\ sub_status = "Cancelled"
      /\ cancelled_at # NoTime)

\* One call of pause or resume, as observed from outside.
C20_PauseResumeStep ==
    /\ SubCalled("pause") => (sub_status' = "Paused")
    /\ SubCalled("resume") =>
            (sub_status' = IF sub_status = "Paused" THEN "Active"
                           ELSE sub_status)
    /\ (SubCalled("pause") \/ SubCalled("resume")) =>
            UNCHANGED <<sub_id, current_period_start, current_period_end,
                        billing_cycle, cancel_at_period_end, cancelled_at,
                        sub_events, sub_emitted>>

\* C20: pause sets the status to Paused from every prior status; resume sets
\* it to Active exactly when it was Paused and otherwise changes nothing;
\* neither appends an event nor changes the period dates,
\* cancel_at_period_end or cancelled_at.
C20_PauseResume == [][C20_PauseResumeStep]_vars

\* C20 witness: a cancelled subscription was paused and then resumed; it is
\* Active and still carries its cancellation time and its two events.
C20_Witness ==
    /\ Len(sub_trace) = 3
    /\ sub_trace[1].name = "cancel" /\ ~sub_trace[1].at_period_end
    /\ sub_trace[2].name = "pause"
    /\ sub_trace[3].name = "resume"
    /\ sub_status = "Active"
    /\ cancelled_at = sub_trace[1].now
    /\ Len(sub_events) = 2

----------------------------------------------------------------------------
(* Both aggregates: which events are raised *)

\* The types of the events in a sequence of events.
TypesIn(seq) == {seq[i].type : i \in 1..Len(seq)}

\* One step, seen from the event histories: the calls that raise nothing.
C21_SilentStep ==
    /\ (Called("process") \/ Called("fail")) => UNCHANGED <<events, emitted>>
    /\ (SubCalled("pause") \/ SubCalled("resume")) =>
            UNCHANGED <<sub_events, sub_emitted>>

\* C21: the only events ever appended are Payment Created, Succeeded,
\* Refunded and Subscription Created, Renewed, Cancelled; Failed and
\* PaymentFailed are never emitted; process, fail, pause and resume append no
\* event.
C21_EventsRaised ==
    /\ [](/\ TypesIn(emitted) \subseteq {"Created", "Succeeded", "Refunded"}
          /\ TypesIn(events) \subseteq {"Created", "Succeeded", "Refunded"}
          /\ TypesIn(sub_emitted) \subseteq {"Created", "Renewed", "Cancelled"}
          /\ TypesIn(sub_events) \subseteq {"Created", "Renewed", "Cancelled"})
    /\ [][C21_SilentStep]_vars

\* C21 witness: a Payment was processed, settled and then failed; its history
\* holds the Created and Succeeded events and nothing for process or fail.
C21_Witness ==
    /\ Len(trace) = 3
    /\ trace[1].name = "process" /\ trace[1].result = "Ok"
    /\ trace[2].name = "succeed" /\ trace[2].result = "Ok"
    /\ trace[3].name = "fail"
    /\ status = "Failed"
    /\ Len(emitted) = 2
    /\ events = emitted

----------------------------------------------------------------------------
(* Payment: refunded total, status and event history *)

\* Sum of the amounts carried by the Refunded events of a sequence of events.
RECURSIVE RefundedSum(_)
RefundedSum(seq) ==
    IF seq = <<>> THEN 0
    ELSE (IF seq[Len(seq)].type = "Refunded" THEN seq[Len(seq)].amount ELSE 0)
         + RefundedSum(SubSeq(seq, 1, Len(seq) - 1))

\* C23: refunded_amount equals the sum of the amounts of all Refunded events
\* emitted so far, drained or pending, and changes only in a refund call that
\* returns Ok.
C23_RefundedIsSumOfEvents ==
    /\ [](refunded_amount = RefundedSum(emitted))
    /\ [][(refunded_amount' # refunded_amount) =>
            (Called("refund") /\ NewCall.result = "Ok")]_vars

\* C23 witness: a refund was accepted and its event drained; the total still
\* equals the sum over the whole history.
C23_Witness ==
    /\ Len(trace) = 4
    /\ trace[3].name = "refund" /\ trace[3].result = "Ok"
    /\ trace[4].name = "take_events"
    /\ events = <<>>
    /\ CountType(emitted, "Refunded") = 1
    /\ refunded_amount > 0
    /\ refunded_amount = RefundedSum(emitted)

\* C24: status in {Pending, Processing, Succeeded} implies refunded_amount = 0;
\* PartiallyRefunded implies 0 < refunded_amount < amount.amount; Refunded
\* implies refunded_amount = amount.amount.
C24_StatusAgreesWithTotal ==
    /\ (status \in {"Pending", "Processing", "Succeeded"})
            => (refunded_amount = 0)
    /\ (status = "PartiallyRefunded")
            => (0 < refunded_amount /\ refunded_amount < amount)
    /\ (status = "Refunded") => (refunded_amount = amount)

\* Positions of the events of a type in the emitted history.
EmittedAt(t) == {i \in 1..Len(emitted) : emitted[i].type = t}

\* C25: in the emitted history of one Payment, Created occurs exactly once and
\* first, and every Refunded event is preceded by the Succeeded event.
C25_EventOrder ==
    /\ EmittedAt("Created") = {1}
    /\ \A i \in EmittedAt("Refunded") :
            \E j \in EmittedAt("Succeeded") : j < i

\* C25 witness: a Payment was settled and refunded, with a drain in between.
C25_Witness ==
    /\ Len(trace) = 4
    /\ trace[3].name = "take_events"
    /\ trace[4].name = "refund" /\ trace[4].result = "Ok"
    /\ Len(emitted) = 3
    /\ emitted[3].type = "Refunded"
    /\ Len(events) = 1

----------------------------------------------------------------------------
(* Payment: two writers, one stored instance *)

\* Every Payment instance there is: the stored one and the writers' copies.
Instances == {stored} \cup {copy[w] : w \in Writers}

\* Writer w calls refund in this step.
RefundBy(w) == w_pc[w] = "loaded" /\ w_pc'[w] = "refunded"

\* Writer w calls refund with a positive amount after another writer's
\* refund of a positive amount was accepted and saved, no two writers ever
\* held a copy at once, and the amount passed together with the refunds
\* accepted so far is over the payment amount.
SecondOverLimit(w) ==
    /\ RefundBy(w)
    /\ serial
    /\ \E o \in Writers \ {w} :
            w_pc[o] = "done" /\ w_result[o] = "Ok" /\ w_amount[o] > 0
    /\ w_amount'[w] > 0
    /\ stored.amount >= 0
    /\ accepted + w_amount'[w] > stored.amount

\* Each instance on its own keeps its refunded total within its amount.
C22_EachInstanceWithinAmount ==
    \A p \in Instances : (p.amount >= 0) => (p.refunded_amount <= p.amount)

\* What refund returns depends on the writer's own copy and nothing else.
C22_OwnCopyStep ==
    \A w \in Writers :
        RefundBy(w) =>
            (w_result'[w] = "Ok" <=>
                /\ Refundable(copy[w].status)
                /\ copy[w].refunded_amount + w_amount'[w] <= copy[w].amount)

\* The claim as stated: the second over-limit refund of a serialized history
\* returns RefundExceedsPayment.
C22_SecondExceedsStep ==
    \A w \in Writers :
        SecondOverLimit(w) => (w_result'[w] = "RefundExceedsPayment")

\* The second over-limit refund of a serialized history is rejected, with the
\* error the status of the stored payment selects.
C22_SecondRejectedStep ==
    \A w \in Writers :
        SecondOverLimit(w) =>
            /\ stored.status \in {"PartiallyRefunded", "Refunded"}
            /\ (stored.status = "PartiallyRefunded")
                    => (w_result'[w] = "RefundExceedsPayment")
            /\ (stored.status = "Refunded")
                    => (w_result'[w] = "NotRefundable")
            /\ copy'[w] = copy[w]

\* C22 (as stated): two writers that each refund on their own copy of a
\* stored Succeeded Payment get an answer that depends on their copy only, and
\* each copy keeps refunded_amount <= amount.amount; with serialized access
\* the second over-limit refund is rejected with RefundExceedsPayment.
C22_SerialSecondExceeds ==
    /\ []C22_EachInstanceWithinAmount
    /\ [][C22_OwnCopyStep]_vars
    /\ [][C22_SecondExceedsStep]_vars

\* C22 (amended): two writers that each refund on their own copy of a stored
\* Succeeded Payment get an answer that depends on their copy only, and each
\* copy keeps refunded_amount <= amount.amount; with serialized access the
\* accepted refunds stay within the payment amount, and the second over-limit
\* refund is rejected: with RefundExceedsPayment when the first refund was
\* partial, with NotRefundable when the first refund was full.
C22_SerialSecondRejected ==
    /\ []C22_EachInstanceWithinAmount
    /\ []((serial /\ stored.amount >= 0) => (accepted <= stored.amount))
    /\ [][C22_OwnCopyStep]_vars
    /\ [][C22_SecondRejectedStep]_vars

\* C22 witness: both writers held a copy at once, both refunds returned Ok
\* and both were saved; the accepted amounts together exceed the payment
\* amount while the stored instance shows only one of them.
C22_Witness ==
    /\ ~serial
    /\ \A w \in Writers :
            w_pc[w] = "done" /\ w_result[w] = "Ok" /\ w_amount[w] > 0
    /\ stored.amount > 0
    /\ accepted > stored.amount
    /\ stored.refunded_amount <= stored.amount
    /\ stored.refunded_amount < accepted

----------------------------------------------------------------------------
(* Wallet transfers: conservation *)

\* Sum of the balances of the wallets in S.
RECURSIVE SumBalances(_, _)
SumBalances(b, S) ==
    IF S = {} THEN 0
    ELSE LET w == CHOOSE x \in S : TRUE
         IN  b[w] + SumBalances(b, S \ {w})

\* No create_transfer request is between its two statements.
NoTransferInFlight == \A r \in Requests : t_pc[r] # "debit_done"

\* C26: a transfer credits the destination only if it debited the source by
\* the same amount: whenever no transfer is in flight, the sum of all wallet
\* balances is what it was before the transfers and no balance is negative.
C26_TransfersConserve ==
    NoTransferInFlight =>
        /\ SumBalances(balance, WalletIds) = SumBalances(opening, WalletIds)
        /\ \A w \in WalletIds : balance[w] >= 0

====
